---------------------------- MODULE Spec2Model ----------------------------
(***************************************************************************)
(* gitignore-downloader (src/src/main.rs): one run of the command line     *)
(* tool, from argument parsing to the write of the destination file.       *)
(*                                                                         *)
(* Text is a sequence of one-character strings.  NL is the newline and BAD *)
(* stands for a byte that is not valid UTF-8: a file on disk is a sequence *)
(* of bytes, a Rust String never holds BAD.                                *)
(***************************************************************************)
EXTENDS Integers, Sequences, FiniteSets, TLC

NL == "\n"
BAD == "<FF>"

(***************************************************************************)
(* Bounds of the model.                                                    *)
(***************************************************************************)
MaxTemplates == 2
MaxRuns == 2
MaxTypes == 3
MaxMinutes == 1
MaxFetchedAt == 2
MaxNameLen == 3
MaxEntries == 3

(***************************************************************************)
(* Result and Option values.                                               *)
(***************************************************************************)
Ok(v) == [ok |-> TRUE, val |-> v]
Err(e) == [ok |-> FALSE, err |-> e]
Some(v) == [some |-> TRUE, val |-> v]
None == [some |-> FALSE]

\* All sequences over S of length at most n.
SeqsUpTo(S, n) == UNION {[1..k -> S] : k \in 0..n}

(***************************************************************************)
(* str: the standard library's string operations the program calls.        *)
(***************************************************************************)
starts_with(s, p) == Len(s) >= Len(p) /\ SubSeq(s, 1, Len(p)) = p

ends_with(s, p) == Len(s) >= Len(p) /\ SubSeq(s, Len(s) - Len(p) + 1, Len(s)) = p

contains(s, p) == \E i \in 0..(Len(s) - Len(p)) : SubSeq(s, i + 1, i + Len(p)) = p

RECURSIVE concat(_)
concat(ss) == IF ss = <<>> THEN <<>> ELSE Head(ss) \o concat(Tail(ss))

(***************************************************************************)
(* The destination file: whether it exists and its bytes.                  *)
(***************************************************************************)
NoFile == [exists |-> FALSE, bytes |-> <<>>]
FileOf(b) == [exists |-> TRUE, bytes |-> b]

\* fs::read_to_string: an error for a missing file and for bytes that are
\* not valid UTF-8.
fs_read_to_string(f) ==
    IF f.exists /\ (\A i \in 1..Len(f.bytes) : f.bytes[i] # BAD)
    THEN Ok(f.bytes) ELSE Err("io")

unwrap_or_default(r) == IF r.ok THEN r.val ELSE <<>>

\* line 223
read_existing_content(f) == unwrap_or_default(fs_read_to_string(f))

\* A separator before every block, the first of an empty file included.
needs_separator_always(f) == TRUE

\* lines 248-251: the length of the open file.
needs_separator(f) == Len(f.bytes) > 0

\* format!("# --- {} ---\n", name)
header(name) == <<"#", " ", "-", "-", "-", " ">> \o name \o <<" ", "-", "-", "-", NL>>

\* lines 211-216 (and 236-241, 198-203): what one template adds.
template_block(tpl) ==
    header(tpl.name) \o tpl.content
      \o (IF ~ends_with(tpl.content, <<NL>>) THEN <<NL>> ELSE <<>>)
      \o <<NL>>

\* lines 209-217: the buffer of the overwrite branch.
RECURSIVE overwrite_buffer(_)
overwrite_buffer(tpls) ==
    IF tpls = <<>> THEN <<>>
    ELSE template_block(Head(tpls)) \o overwrite_buffer(Tail(tpls))

\* The duplicate check without its test for an empty snapshot.
already_present_unguarded(existing, tpl) == contains(existing, tpl.content)

\* line 229: the duplicate check of the append branch.
already_present(existing, tpl) ==
    existing # <<>> /\ contains(existing, tpl.content)

\* lines 233-241: the bytes one append adds to the open file.
append_bytes(f, tpl) ==
    (IF needs_separator(f) THEN <<NL>> ELSE <<>>) \o template_block(tpl)


(***************************************************************************)
(* Names, flags and normalization.                                         *)
(***************************************************************************)
FLAG_MACOS == <<"-", "-", "m", "a", "c", "o", "s">>
FLAG_LOCKS == <<"-", "-", "l", "o", "c", "k", "s">>
MACOS_SNIPPET == <<"#", " ", "D", "e", "s", "k", "t", "o", "p", " ", "S", "e", "r", "v", "i", "c", "e", " ", "S", "t", "o", "r", "e", " ", "M", "a", "c", NL, ".", "D", "S", "_", "S", "t", "o", "r", "e", NL>>
LOCKS_SNIPPET == <<"#", " ", "L", "o", "c", "k", " ", "F", "i", "l", "e", "s", NL, "p", "a", "c", "k", "a", "g", "e", "-", "l", "o", "c", "k", ".", "j", "s", "o", "n", NL, "y", "a", "r", "n", ".", "l", "o", "c", "k", NL>>

\* lines 264-270
built_in_flag(flag) ==
    CASE flag = FLAG_MACOS -> Some(MACOS_SNIPPET)
      [] flag = FLAG_LOCKS -> Some(LOCKS_SNIPPET)
      [] OTHER -> None

\* char::to_uppercase: one character may upper-case to several.
to_uppercase(c) ==
    CASE c = "r" -> <<"R">>
      [] c = "n" -> <<"N">>
      [] c = "g" -> <<"G">>
      [] c = "a" -> <<"A">>
      [] c = "ß" -> <<"S", "S">>
      [] OTHER -> <<c>>

RECURSIVE upper_all(_)
upper_all(s) == IF s = <<>> THEN <<>> ELSE to_uppercase(Head(s)) \o upper_all(Tail(s))

\* Every character upper-cased, not the first alone.
normalize_type_all_caps(input) ==
    IF starts_with(input, <<"-", "-">>) THEN input ELSE upper_all(input)

\* lines 253-262
normalize_type(input) ==
    IF starts_with(input, <<"-", "-">>) THEN input
    ELSE IF input = <<>> THEN input
    ELSE to_uppercase(Head(input)) \o Tail(input)

\* lines 89-92
normalize_all(sel) == [i \in 1..Len(sel) |-> normalize_type(sel[i])]

(***************************************************************************)
(* Time.  An instant is a number of ticks since the epoch; the clock is    *)
(* finer than the whole seconds the cache stores.                          *)
(***************************************************************************)
TicksPerSec == 2
SecsPerMin == 60

\* line 74
ttl_of(cli_args) == cli_args.cache_ttl_minutes * SecsPerMin

\* lines 291-293
as_secs(instant) == instant \div TicksPerSec

\* SystemTime::elapsed: an error when the instant is later than now.
elapsed(instant, t) == IF t >= instant THEN Ok(t - instant) ELSE Err("SystemTimeError")

\* An age equal to the time-to-live counted as stale.
is_fresh_strict(fetched_at, ttl, t) ==
    LET age == elapsed(fetched_at * TicksPerSec, t)
    IN  IF age.ok THEN age.val < ttl * TicksPerSec ELSE FALSE

\* lines 58-61, with ttl in seconds and t the current instant.
is_fresh(fetched_at, ttl, t) ==
    LET fetched == fetched_at * TicksPerSec
        age == elapsed(fetched, t)
    IN  IF age.ok THEN age.val <= ttl * TicksPerSec ELSE FALSE

(***************************************************************************)
(* The cache file: missing, or holding a document that parses as           *)
(* CachedTypes, or something serde_json rejects.                           *)
(***************************************************************************)
NoCacheFile == [exists |-> FALSE]
GarbageCache == [exists |-> TRUE, parses |-> FALSE]
CacheOf(at, ts) == [exists |-> TRUE, parses |-> TRUE, fetched_at |-> at, types |-> ts]

\* lines 272-284
read_cached_types(file, ttl, t) ==
    IF ~file.exists THEN Ok(None)
    ELSE IF ~file.parses THEN Err("cache_parse")
    ELSE IF is_fresh(file.fetched_at, ttl, t) THEN Ok(Some(file.types))
    ELSE Ok(None)

\* lines 286-301
write_cached_types(types, t) == CacheOf(as_secs(t), types)

(***************************************************************************)
(* The directory listing.                                                  *)
(***************************************************************************)
SUFFIX == <<".", "g", "i", "t", "i", "g", "n", "o", "r", "e">>
STATUS_OK == 200
\* The statuses an endpoint answers with.
Statuses == {STATUS_OK, 403, 404}

\* The byte of a character: String's order is the order of its bytes.
byte(c) ==
    CASE c = "-" -> 45 [] c = "." -> 46
      [] c = "A" -> 65 [] c = "B" -> 66 [] c = "G" -> 71 [] c = "N" -> 78
      [] c = "R" -> 82 [] c = "S" -> 83
      [] c = "a" -> 97 [] c = "c" -> 99 [] c = "e" -> 101 [] c = "g" -> 103
      [] c = "i" -> 105 [] c = "k" -> 107 [] c = "l" -> 108 [] c = "m" -> 109
      [] c = "n" -> 110 [] c = "o" -> 111 [] c = "r" -> 114 [] c = "s" -> 115
      [] c = "t" -> 116
      [] OTHER -> 223

RECURSIVE str_lt(_, _)
str_lt(a, b) ==
    IF b = <<>> THEN FALSE
    ELSE IF a = <<>> THEN TRUE
    ELSE IF byte(Head(a)) # byte(Head(b)) THEN byte(Head(a)) < byte(Head(b))
    ELSE str_lt(Tail(a), Tail(b))

\* str::trim_end_matches: removes the pattern from the end repeatedly.
RECURSIVE trim_end_matches(_, _)
trim_end_matches(s, p) ==
    IF p # <<>> /\ ends_with(s, p)
    THEN trim_end_matches(SubSeq(s, 1, Len(s) - Len(p)), p)
    ELSE s

\* line 125
clean_name(name) == trim_end_matches(name, SUFFIX)

\* lines 122-130
RECURSIVE collect_types(_)
collect_types(entries) ==
    IF entries = <<>> THEN <<>>
    ELSE LET name == Head(entries)
             rest == collect_types(Tail(entries))
         IN  IF ends_with(name, SUFFIX) /\ clean_name(name) # <<>>
             THEN <<clean_name(name)>> \o rest
             ELSE rest

RECURSIVE insert_sorted(_, _)
insert_sorted(x, s) ==
    IF s = <<>> THEN <<x>>
    ELSE IF str_lt(Head(s), x) THEN <<Head(s)>> \o insert_sorted(x, Tail(s))
    ELSE <<x>> \o s

\* Vec::sort
RECURSIVE sort(_)
sort(s) == IF s = <<>> THEN <<>> ELSE insert_sorted(Head(s), sort(Tail(s)))

\* Vec::dedup: drops an element equal to the one before it.
RECURSIVE dedup(_)
dedup(s) ==
    IF Len(s) <= 1 THEN s
    ELSE IF s[1] = s[2] THEN dedup(Tail(s))
    ELSE <<Head(s)>> \o dedup(Tail(s))

\* lines 121-133: the type list of a listing that arrived with status 200.
fetch_types(entries) == dedup(sort(collect_types(entries)))

(***************************************************************************)
(* The state of one run.                                                   *)
(***************************************************************************)
VARIABLES
    pc,                \* where run() is
    cli,               \* the parsed arguments (struct Cli)
    now,               \* the clock
    cache_file,        \* the cache file types.json
    listing,           \* the names the listing endpoint returns
    dest,              \* the destination file
    available,         \* run: the loaded type list
    selected,          \* run: the names to fetch
    normalized,        \* run: the normalized names
    templates,         \* fetch_templates: out
    idx,               \* the position of the loop under way
    existing_content,  \* write_templates: the snapshot of the destination
    requests,          \* the HTTP requests sent, in order
    stdout,            \* what was printed
    stderr,            \* what was reported
    error,             \* the error run() returned, if any
    run_no,            \* the number of this run
    start              \* the files as this run found them

vars == <<pc, cli, now, cache_file, listing, dest, available, selected,
          normalized, templates, idx, existing_content, requests, stdout,
          stderr, error, run_no, start>>

world == <<cli, now, listing, run_no, start>>
locals == <<available, selected, normalized, templates, idx, existing_content>>
output == <<stdout, stderr, error>>

Template(n, c) == [name |-> n, content |-> c]
TypesRequest == [url |-> "TYPES_URL"]
\* line 171
RawRequest(t) == [url |-> "RAW_BASE_URL", file |-> t \o SUFFIX]

\* lines 64-68: run() returned Err.
Fail(e) ==
    /\ pc' = "exit_err"
    /\ error' = e
    /\ stderr' = Append(stderr, [msg |-> "Error", err |-> e])

(***************************************************************************)
(* run, lines 71-99.                                                       *)
(***************************************************************************)
\* lines 76-88: which branch the arguments take.
RunStart ==
    /\ pc = "run"
    /\ selected' = IF cli.list THEN <<>> ELSE cli.types
    /\ pc' = IF cli.list \/ cli.types = <<>> THEN "load_types" ELSE "normalize"
    /\ UNCHANGED <<world, cache_file, dest, available, normalized, templates,
                   idx, existing_content, requests, output>>

\* What load_types reads from the cache (lines 102-106).
cached_types == IF cli.no_cache THEN Ok(None)
                ELSE read_cached_types(cache_file, ttl_of(cli), now)

\* lines 103-104: a fresh cache answers.
LoadTypesHit ==
    /\ pc = "load_types"
    /\ cached_types.ok /\ cached_types.val.some
    /\ available' = cached_types.val.val
    /\ pc' = "loaded"
    /\ UNCHANGED <<world, cache_file, dest, selected, normalized, templates,
                   idx, existing_content, requests, output>>

\* line 103: read_cached_types(ttl)? returns the error.
LoadTypesCacheError ==
    /\ pc = "load_types"
    /\ ~cached_types.ok
    /\ Fail([msg |-> cached_types.err])
    /\ UNCHANGED <<world, cache_file, dest, locals, requests, stdout>>

\* lines 107-109, 112-134: the listing is fetched and the cache rewritten.
LoadTypesFetch ==
    /\ pc = "load_types"
    /\ cached_types.ok /\ ~cached_types.val.some
    /\ requests' = Append(requests, TypesRequest)
    /\ \/ /\ Fail([msg |-> "send"])
          /\ UNCHANGED <<cache_file, available, stdout>>
       \/ /\ \E status \in Statuses :
                /\ status # STATUS_OK
                /\ Fail([msg |-> "Failed to fetch types", status |-> status])
          /\ UNCHANGED <<cache_file, available, stdout>>
       \/ /\ Fail([msg |-> "json"])
          /\ UNCHANGED <<cache_file, available, stdout>>
       \/ /\ available' = fetch_types(listing)
          /\ cache_file' = write_cached_types(fetch_types(listing), now)
          /\ pc' = "loaded"
          /\ UNCHANGED output
    /\ UNCHANGED <<world, dest, selected, normalized, templates, idx,
                   existing_content>>

\* lines 77-79
ListTypes ==
    /\ pc = "loaded"
    /\ cli.list
    /\ stdout' = stdout \o [i \in 1..Len(available) |-> [line |-> available[i]]]
    /\ pc' = "exit_ok"
    /\ UNCHANGED <<world, cache_file, dest, locals, requests, stderr, error>>

\* lines 85-86, 143-153: the picker returns one of the items, or fails.
PromptForType ==
    /\ pc = "loaded"
    /\ ~cli.list
    /\ \/ /\ \E i \in 1..Len(available) : selected' = Append(selected, available[i])
          /\ pc' = "normalize"
          /\ UNCHANGED output
       \/ /\ Fail([msg |-> "interact"])
          /\ UNCHANGED <<selected, stdout>>
    /\ UNCHANGED <<world, cache_file, dest, available, normalized, templates,
                   idx, existing_content, requests>>

\* lines 89-92
Normalize ==
    /\ pc = "normalize"
    /\ normalized' = normalize_all(selected)
    /\ templates' = <<>>
    /\ idx' = 1
    /\ pc' = "fetch_templates"
    /\ UNCHANGED <<world, cache_file, dest, available, selected,
                   existing_content, requests, output>>

(***************************************************************************)
(* fetch_templates, lines 161-188.                                         *)
(***************************************************************************)
\* The bodies the raw endpoint answers with.
RawBodies == {<<>>, <<"a">>, <<"a", NL>>}

\* lines 164-170
FetchBuiltIn ==
    /\ pc = "fetch_templates"
    /\ idx <= Len(normalized)
    /\ built_in_flag(normalized[idx]).some
    /\ templates' = Append(templates,
                           Template(normalized[idx], built_in_flag(normalized[idx]).val))
    /\ idx' = idx + 1
    /\ UNCHANGED <<pc, world, cache_file, dest, available, selected, normalized,
                   existing_content, requests, output>>

\* A request that fails is passed over and the loop goes on.
FetchRemoteKeepsGoing ==
    /\ pc = "fetch_templates"
    /\ idx <= Len(normalized)
    /\ ~built_in_flag(normalized[idx]).some
    /\ requests' = Append(requests, RawRequest(normalized[idx]))
    /\ \/ /\ \E status \in Statuses : status # STATUS_OK
          /\ UNCHANGED templates
       \/ \E content \in RawBodies :
             templates' = Append(templates, Template(normalized[idx], content))
    /\ idx' = idx + 1
    /\ UNCHANGED <<pc, output, world, cache_file, dest, available, selected,
                   normalized, existing_content>>

\* lines 171-185
FetchRemote ==
    /\ pc = "fetch_templates"
    /\ idx <= Len(normalized)
    /\ ~built_in_flag(normalized[idx]).some
    /\ requests' = Append(requests, RawRequest(normalized[idx]))
    /\ \/ /\ Fail([msg |-> "send"])
          /\ UNCHANGED <<templates, idx, stdout>>
       \/ /\ \E status \in Statuses :
                /\ status # STATUS_OK
                /\ Fail([msg |-> "Template not found", name |-> normalized[idx],
                         status |-> status])
          /\ UNCHANGED <<templates, idx, stdout>>
       \/ /\ Fail([msg |-> "text"])
          /\ UNCHANGED <<templates, idx, stdout>>
       \/ /\ \E content \in RawBodies :
                templates' = Append(templates, Template(normalized[idx], content))
          /\ idx' = idx + 1
          /\ UNCHANGED <<pc, output>>
    /\ UNCHANGED <<world, cache_file, dest, available, selected, normalized,
                   existing_content>>

\* lines 187, 94-97
FetchDone ==
    /\ pc = "fetch_templates"
    /\ idx > Len(normalized)
    /\ pc' = "write_templates"
    /\ UNCHANGED <<world, cache_file, dest, locals, requests, output>>

(***************************************************************************)
(* write_templates, lines 190-246.                                         *)
(***************************************************************************)
\* lines 197-204: what the dry run prints.
dry_run_output(tpls) == concat([i \in 1..Len(tpls) |-> template_block(tpls[i])])

\* A dry run that also writes the destination.
WriteDryRunWrites ==
    /\ pc = "write_templates"
    /\ cli.dry_run
    /\ stdout' = Append(stdout, [text |-> dry_run_output(templates)])
    /\ dest' = FileOf(overwrite_buffer(templates))
    /\ pc' = "exit_ok"
    /\ UNCHANGED <<world, cache_file, locals, requests, stderr, error>>

\* lines 196-206
WriteDryRun ==
    /\ pc = "write_templates"
    /\ cli.dry_run
    /\ stdout' = Append(stdout, [text |-> dry_run_output(templates)])
    /\ pc' = "exit_ok"
    /\ UNCHANGED <<world, cache_file, dest, locals, requests, stderr, error>>

\* An overwrite that keeps what the file held.
WriteOverwriteKeepsOld ==
    /\ pc = "write_templates"
    /\ ~cli.dry_run /\ cli.overwrite
    /\ dest' = FileOf(dest.bytes \o overwrite_buffer(templates))
    /\ stdout' = Append(stdout, [msg |-> "Wrote templates"])
    /\ pc' = "exit_ok"
    /\ UNCHANGED <<world, cache_file, locals, requests, stderr, error>>

\* lines 208-221
WriteOverwrite ==
    /\ pc = "write_templates"
    /\ ~cli.dry_run /\ cli.overwrite
    /\ dest' = FileOf(overwrite_buffer(templates))
    /\ stdout' = Append(stdout, [msg |-> "Wrote templates"])
    /\ pc' = "exit_ok"
    /\ UNCHANGED <<world, cache_file, locals, requests, stderr, error>>

\* lines 223-227: the snapshot is taken, the file opened (and created).
AppendOpen ==
    /\ pc = "write_templates"
    /\ ~cli.dry_run /\ ~cli.overwrite
    /\ existing_content' = read_existing_content(dest)
    /\ dest' = FileOf(dest.bytes)
    /\ idx' = 1
    /\ pc' = "append"
    /\ UNCHANGED <<world, cache_file, available, selected, normalized,
                   templates, requests, output>>

\* lines 229-232
AppendSkip ==
    /\ pc = "append"
    /\ idx <= Len(templates)
    /\ already_present(existing_content, templates[idx])
    /\ stderr' = Append(stderr, [msg |-> "Skipping", name |-> templates[idx].name])
    /\ idx' = idx + 1
    /\ UNCHANGED <<pc, world, cache_file, dest, available, selected, normalized,
                   templates, existing_content, requests, stdout, error>>

\* lines 233-243
AppendWrite ==
    /\ pc = "append"
    /\ idx <= Len(templates)
    /\ ~already_present(existing_content, templates[idx])
    /\ dest' = FileOf(dest.bytes \o append_bytes(dest, templates[idx]))
    /\ stdout' = Append(stdout, [msg |-> "Appended", name |-> templates[idx].name])
    /\ idx' = idx + 1
    /\ UNCHANGED <<pc, world, cache_file, available, selected, normalized,
                   templates, existing_content, requests, stderr, error>>

\* line 245
AppendDone ==
    /\ pc = "append"
    /\ idx > Len(templates)
    /\ pc' = "exit_ok"
    /\ UNCHANGED <<world, cache_file, dest, locals, requests, output>>

\* The same command is run again: write_templates with the same templates
\* on the file as the run before left it.
WriteAgain ==
    /\ pc = "exit_ok"
    /\ run_no < MaxRuns
    /\ run_no' = run_no + 1
    /\ start' = [dest |-> dest, cache |-> cache_file]
    /\ pc' = "write_templates"
    /\ idx' = 1
    /\ existing_content' = <<>>
    /\ stdout' = <<>>
    /\ stderr' = <<>>
    /\ UNCHANGED <<cli, now, listing, cache_file, dest, available, selected,
                   normalized, templates, requests, error>>

(***************************************************************************)
(* Initial states.                                                         *)
(***************************************************************************)
NoError == [msg |-> "none"]

Args(types, list, overwrite, dry_run, no_cache, minutes) ==
    [types |-> types, list |-> list, overwrite |-> overwrite,
     dry_run |-> dry_run, no_cache |-> no_cache, cache_ttl_minutes |-> minutes]

\* The process starts: nothing fetched, nothing printed.
InitRun(args, t, cache, entries, file) ==
    /\ pc = "run"
    /\ cli = args
    /\ now = t
    /\ cache_file = cache
    /\ listing = entries
    /\ dest = file
    /\ available = <<>> /\ selected = <<>> /\ normalized = <<>>
    /\ templates = <<>> /\ idx = 1 /\ existing_content = <<>>
    /\ requests = <<>> /\ stdout = <<>> /\ stderr = <<>>
    /\ error = NoError
    /\ run_no = 1
    /\ start = [dest |-> file, cache |-> cache]

\* write_templates is entered with the templates fetch_templates returned.
InitWriteTemplates(overwrite, dry_run, tpls, file) ==
    /\ pc = "write_templates"
    /\ cli = Args([i \in 1..Len(tpls) |-> tpls[i].name], FALSE, overwrite,
                  dry_run, FALSE, 0)
    /\ now = 0
    /\ cache_file = NoCacheFile
    /\ listing = <<>>
    /\ dest = file
    /\ available = <<>>
    /\ selected = [i \in 1..Len(tpls) |-> tpls[i].name]
    /\ normalized = [i \in 1..Len(tpls) |-> tpls[i].name]
    /\ templates = tpls /\ idx = 1 /\ existing_content = <<>>
    /\ requests = <<>> /\ stdout = <<>> /\ stderr = <<>>
    /\ error = NoError
    /\ run_no = 1
    /\ start = [dest |-> file, cache |-> NoCacheFile]

RUST == <<"R", "u", "s", "t">>
NODE == <<"N", "o", "d", "e">>
TARGET == <<"t", "a", "r", "g", "e", "t", "/", NL>>
NODE_MODULES == <<"n", "o", "d", "e", "_", "m", "o", "d", "u", "l", "e", "s", "/", NL>>
EXISTING == <<"E", "x", "i", "s", "t", "i", "n", "g", NL, "t", "a", "r", "g", "e", "t", "/", NL>>
OLD_CONTENT == <<"o", "l", "d", " ", "c", "o", "n", "t", "e", "n", "t">>
\* The templates of the two tests of write_templates (lines 352-361, 381-390).
TestTemplates == <<Template(RUST, TARGET), Template(NODE, NODE_MODULES)>>

TemplateNames == {<<"R">>, <<"N">>}
TemplateContents == {<<>>, <<"a">>, <<NL>>, <<"a", NL>>}
DestFiles == {NoFile, FileOf(<<>>), FileOf(<<"a">>), FileOf(<<"a", NL>>),
              FileOf(<<"b", "a", NL, "b">>), FileOf(<<BAD>>),
              FileOf(<<BAD, "a", NL>>)}

InitWrite ==
    \E overwrite \in BOOLEAN, dry_run \in BOOLEAN :
       \/ \E tpls \in SeqsUpTo([name : TemplateNames, content : TemplateContents],
                               MaxTemplates),
             file \in DestFiles :
             InitWriteTemplates(overwrite, dry_run, tpls, file)
       \/ \E file \in {NoFile, FileOf(OLD_CONTENT), FileOf(EXISTING)} :
             InitWriteTemplates(overwrite, dry_run, TestTemplates, file)

NextWrite ==
    \/ WriteDryRun \/ WriteOverwrite
    \/ AppendOpen \/ AppendSkip \/ AppendWrite \/ AppendDone
    \/ WriteAgain

SpecWrite == InitWrite /\ [][NextWrite]_vars

(***************************************************************************)
(* The whole run.                                                          *)
(***************************************************************************)
UserTypes == {<<"r">>, <<"g">>, FLAG_MACOS}
Clock == {0, SecsPerMin * TicksPerSec + 1}
CacheFiles == {NoCacheFile, GarbageCache, CacheOf(0, <<<<"A">>>>)}
UpstreamListing == <<<<"B">> \o SUFFIX, <<"A">> \o SUFFIX, <<"R", "E", "A", "D", "M", "E">>>>

Init ==
    \E types \in SeqsUpTo(UserTypes, MaxTypes),
       list \in BOOLEAN, overwrite \in BOOLEAN, dry_run \in BOOLEAN,
       no_cache \in BOOLEAN, minutes \in 0..MaxMinutes,
       t \in Clock, cache \in CacheFiles,
       file \in {NoFile, FileOf(<<"a">>)} :
       InitRun(Args(types, list, overwrite, dry_run, no_cache, minutes),
               t, cache, UpstreamListing, file)

Next ==
    \/ RunStart
    \/ LoadTypesHit \/ LoadTypesCacheError \/ LoadTypesFetch
    \/ ListTypes \/ PromptForType
    \/ Normalize
    \/ FetchBuiltIn \/ FetchRemote \/ FetchDone
    \/ WriteDryRun \/ WriteOverwrite
    \/ AppendOpen \/ AppendSkip \/ AppendWrite \/ AppendDone

Spec == Init /\ [][Next]_vars

(***************************************************************************)
(* The cache load on a cache file that parses, over the clock, the         *)
(* stamp and the time-to-live.                                             *)
(***************************************************************************)
MaxNow == (MaxFetchedAt + MaxMinutes * SecsPerMin + 1) * TicksPerSec

InitFresh ==
    \E list \in BOOLEAN, minutes \in 0..MaxMinutes, t \in 0..MaxNow,
       at \in 0..MaxFetchedAt :
       InitRun(Args(<<>>, list, FALSE, FALSE, FALSE, minutes),
               t, CacheOf(at, <<<<"A">>>>), UpstreamListing, NoFile)

NextFresh == RunStart \/ LoadTypesHit \/ LoadTypesFetch

SpecFresh == InitFresh /\ [][NextFresh]_vars

(***************************************************************************)
(* Normalization, over the names a user may type.                          *)
(***************************************************************************)
TypedNames ==
    SeqsUpTo({"-", "r", "R", "ß"}, MaxNameLen)
      \cup {FLAG_MACOS, FLAG_LOCKS, <<"r", "u", "s", "t">>, RUST,
            <<"-", "-", "n", "o", "p", "e">>}

InitNormalize ==
    \E name \in TypedNames, more \in SeqsUpTo({<<"g">>, FLAG_LOCKS}, 1) :
       InitRun(Args(<<name>> \o more, FALSE, FALSE, TRUE, FALSE, 0),
               0, NoCacheFile, UpstreamListing, NoFile)

NextNormalize == RunStart \/ Normalize

SpecNormalize == InitNormalize /\ [][NextNormalize]_vars

(***************************************************************************)
(* The directory fetch, over the listings the endpoint may return.         *)
(***************************************************************************)
EntryNames ==
    {stem \o rep : stem \in {<<>>, <<"A">>, <<"B">>, <<"a">>},
                   rep \in {<<>>, SUFFIX, SUFFIX \o SUFFIX}}
      \cup {<<"A">> \o SUFFIX \o <<"B">>, SUFFIX \o <<"A">> \o SUFFIX}

InitTypes ==
    \E entries \in SeqsUpTo(EntryNames, MaxEntries), list \in BOOLEAN,
       cache \in {NoCacheFile, CacheOf(0, <<<<"A">>>>)} :
       InitRun(Args(<<>>, list, FALSE, FALSE, TRUE, 0),
               1, cache, entries, NoFile)

NextTypes == RunStart \/ LoadTypesFetch

SpecTypes == InitTypes /\ [][NextTypes]_vars

(***************************************************************************)
(* The claims about write_templates, checked under SpecWrite.              *)
(***************************************************************************)
AppendMode == ~cli.overwrite /\ ~cli.dry_run
OverwriteMode == cli.overwrite /\ ~cli.dry_run

\* The block the claims describe for one template.
ClaimBlock(t) ==
    <<"#", " ", "-", "-", "-", " ">> \o t.name \o <<" ", "-", "-", "-", NL>>
      \o t.content
      \o (IF t.content # <<>> /\ t.content[Len(t.content)] = NL THEN <<>> ELSE <<NL>>)
      \o <<NL>>

ClaimBlocks(tpls) == concat([i \in 1..Len(tpls) |-> ClaimBlock(tpls[i])])

IsSubstring(p, s) == \E i \in 0..Len(s) : \E j \in i..Len(s) : SubSeq(s, i + 1, j) = p

IsPrefix(p, s) == Len(p) <= Len(s) /\ \A i \in 1..Len(p) : p[i] = s[i]

\* The destination's text as a run reads it at its start: empty for a
\* missing file and for one whose bytes are not text.
Snapshot ==
    IF start.dest.exists /\ BAD \notin {start.dest.bytes[i] : i \in 1..Len(start.dest.bytes)}
    THEN start.dest.bytes ELSE <<>>

\* C1: in overwrite mode the file ends as exactly the blocks of the
\* templates, in order, whatever it held before.
C1_OverwriteExact ==
    (OverwriteMode /\ pc = "exit_ok") =>
        (dest.exists /\ dest.bytes = ClaimBlocks(templates))

C1_Witness ==
    /\ OverwriteMode /\ pc = "exit_ok" /\ run_no = 1
    /\ start.dest.exists /\ start.dest.bytes # <<>>
    /\ Len(templates) = 2
    /\ templates[1].content = <<"a">> /\ templates[2].content = <<"a", NL>>
    /\ ~IsPrefix(start.dest.bytes, dest.bytes)

C1_TestWitness ==
    /\ OverwriteMode /\ pc = "exit_ok" /\ start.dest = FileOf(OLD_CONTENT)
    /\ templates = TestTemplates
    /\ dest.bytes = header(RUST) \o TARGET \o <<NL>> \o header(NODE) \o NODE_MODULES \o <<NL>>

\* C2 as stated: in append mode a template is skipped (nothing is written
\* for it) exactly when the snapshot contains its content.
C2_SkipIffContained ==
    [][(AppendMode /\ pc = "append" /\ idx' = idx + 1) =>
          ((dest' = dest) <=> IsSubstring(templates[idx].content, Snapshot))]_vars

\* C2 amended: a template is skipped exactly when the snapshot is not empty
\* and contains its content; the snapshot is the text read at the start of
\* the run and no step of the loop changes it.
C2_SkipIffNonEmptyContained ==
    [][(AppendMode /\ pc = "append" /\ idx' = idx + 1) =>
          /\ (dest' = dest) <=>
                (Snapshot # <<>> /\ IsSubstring(templates[idx].content, Snapshot))
          /\ existing_content = Snapshot
          /\ existing_content' = existing_content]_vars

\* Two templates of one content that the snapshot lacks were both written.
C2_Witness ==
    /\ AppendMode /\ pc = "exit_ok" /\ run_no = 1
    /\ Len(templates) = 2
    /\ templates[1].content = templates[2].content
    /\ templates[1].content = <<"a", NL>>
    /\ Snapshot = <<"a">>
    /\ Len(stdout) = 2 /\ stderr = <<>>

\* The final content the claim describes, from the content at the start.
RECURSIVE ExpectedAppend(_, _, _)
ExpectedAppend(bytes, snap, tpls) ==
    IF tpls = <<>> THEN bytes
    ELSE LET t == Head(tpls) IN
         IF snap # <<>> /\ IsSubstring(t.content, snap)
         THEN ExpectedAppend(bytes, snap, Tail(tpls))
         ELSE ExpectedAppend(bytes \o (IF Len(bytes) # 0 THEN <<NL>> ELSE <<>>)
                                   \o ClaimBlock(t), snap, Tail(tpls))

\* C3: in append mode the file is its initial content followed by one
\* block per template that was not skipped, each with a leading newline
\* exactly when the file was not empty at that moment; the initial
\* content stays a prefix.
C3_AppendExact ==
    /\ (AppendMode /\ pc = "append") =>
          dest.bytes = ExpectedAppend(start.dest.bytes, Snapshot,
                                      SubSeq(templates, 1, idx - 1))
    /\ (AppendMode /\ pc = "exit_ok") =>
          dest.bytes = ExpectedAppend(start.dest.bytes, Snapshot, templates)
    /\ AppendMode => IsPrefix(start.dest.bytes, dest.bytes)

\* An empty file received two blocks: the first without a separator, the
\* second with one.
C3_Witness ==
    /\ AppendMode /\ pc = "exit_ok" /\ run_no = 1
    /\ start.dest.bytes = <<>>
    /\ templates = <<Template(<<"R">>, <<"a">>), Template(<<"N">>, <<"a", NL>>)>>
    /\ dest.bytes = header(<<"R">>) \o <<"a", NL, NL>> \o <<NL>>
                      \o header(<<"N">>) \o <<"a", NL, NL>>

C3_TestWitness ==
    /\ AppendMode /\ pc = "exit_ok" /\ start.dest = FileOf(EXISTING)
    /\ templates = TestTemplates
    /\ dest.bytes = EXISTING \o <<NL>> \o header(NODE) \o NODE_MODULES \o <<NL>>

\* C4: a second append run with the same templates skips every template
\* and leaves the file as the first run left it.
C4_AppendIdempotent ==
    (AppendMode /\ run_no >= 2 /\ pc = "exit_ok") =>
        /\ dest = start.dest
        /\ Len(stderr) = Len(templates)
        /\ stdout = <<>>

\* The same, for a destination whose bytes are text.
C4_IdempotentOnText ==
    (AppendMode /\ run_no >= 2 /\ pc = "exit_ok"
       /\ BAD \notin {dest.bytes[i] : i \in 1..Len(dest.bytes)}) =>
        /\ dest = start.dest
        /\ Len(stderr) = Len(templates)
        /\ stdout = <<>>

(***************************************************************************)
(* The claims about the type list and its cache.                           *)
(***************************************************************************)
TypesWanted == cli.list \/ cli.types = <<>>
TypesLoaded == TypesWanted /\ pc \notin {"run", "load_types"}

\* C5: a cache file that does not parse is a miss: the listing is
\* requested and the run does not fail because of the cache.
C5_UnparsableCacheIsMiss ==
    (TypesLoaded /\ ~cli.no_cache /\ start.cache = GarbageCache) =>
        /\ requests # <<>> /\ requests[1] = TypesRequest
        /\ error.msg # "cache_parse"

\* Under SpecFresh the cache file parses and the cache is consulted.
Stamp == start.cache.fetched_at * TicksPerSec
Ttl == cli.cache_ttl_minutes * SecsPerMin * TicksPerSec
CacheMissed == requests # <<>>
CacheAnswered == requests = <<>> /\ pc = "loaded" /\ available = start.cache.types

C6_FutureWitness ==
    /\ TypesLoaded /\ CacheMissed /\ Stamp > now /\ pc = "loaded"

\* The name the claim describes for one input.
ClaimNormalize(s) ==
    IF Len(s) >= 2 /\ s[1] = "-" /\ s[2] = "-" THEN s
    ELSE IF Len(s) = 0 THEN s
    ELSE to_uppercase(s[1]) \o SubSeq(s, 2, Len(s))

\* C7: a name that starts with "--" and the empty name are unchanged, any
\* other name has its first character upper-cased and the rest unchanged;
\* normalizing twice is normalizing once, and the two flags reach the
\* built-in lookup as typed.
C7_Normalize ==
    (pc = "fetch_templates") =>
        \A i \in 1..Len(cli.types) :
            /\ normalized[i] = ClaimNormalize(cli.types[i])
            /\ normalize_type(normalized[i]) = normalized[i]
            /\ (cli.types[i] \in {RUST, <<"r", "u", "s", "t">>}) => normalized[i] = RUST
            /\ (cli.types[i] \in {FLAG_MACOS, FLAG_LOCKS}) =>
                  /\ normalized[i] = cli.types[i]
                  /\ built_in_flag(normalized[i]).some

C7_Witness ==
    /\ pc = "fetch_templates"
    /\ cli.types = <<<<"r", "u", "s", "t">>, FLAG_LOCKS>>
    /\ normalized = <<RUST, FLAG_LOCKS>>

C7_MultiCharWitness ==
    /\ pc = "fetch_templates"
    /\ cli.types[1] = <<"ß", "r">>
    /\ normalized[1] = <<"S", "S", "r">>

\* The entries of the listing that end with the suffix, the suffix removed
\* once, the empty results dropped.
StripOnce(name) == SubSeq(name, 1, Len(name) - Len(SUFFIX))
StrippedOnce ==
    {StripOnce(listing[i]) : i \in {j \in 1..Len(listing) : ends_with(listing[j], SUFFIX)}}
      \ {<<>>}

RECURSIVE StripAll(_)
StripAll(name) == IF ends_with(name, SUFFIX) THEN StripAll(StripOnce(name)) ELSE name
StrippedAll ==
    {StripAll(listing[i]) : i \in {j \in 1..Len(listing) : ends_with(listing[j], SUFFIX)}}
      \ {<<>>}

Elements(seq) == {seq[i] : i \in 1..Len(seq)}
StrictlyAscending(seq) == \A i \in 1..(Len(seq) - 1) : str_lt(seq[i], seq[i + 1])

\* C9: a fetched type list holds exactly the suffixed entries with the
\* suffix removed once, is strictly ascending, and is what the cache holds.
C9_TypesOfListing ==
    (pc = "loaded" /\ requests # <<>>) =>
        /\ Elements(available) = StrippedOnce
        /\ StrictlyAscending(available)
        /\ cache_file = CacheOf(as_secs(now), available)

\* The same with the suffix removed as often as it ends the name.
C9_TypesOfListingRepeated ==
    (pc = "loaded" /\ requests # <<>>) =>
        /\ Elements(available) = StrippedAll
        /\ StrictlyAscending(available)
        /\ cache_file = CacheOf(as_secs(now), available)

(***************************************************************************)
(* The claims about the requests and the destination, checked under Spec. *)
(***************************************************************************)
IsFlag(name) == name \in {FLAG_MACOS, FLAG_LOCKS}

\* The requests the claim expects for the names, in their order.
RECURSIVE ExpectedRaw(_)
ExpectedRaw(names) ==
    IF names = <<>> THEN <<>>
    ELSE (IF IsFlag(Head(names)) THEN <<>>
          ELSE <<[url |-> "RAW_BASE_URL", file |-> Head(names) \o SUFFIX]>>)
         \o ExpectedRaw(Tail(names))

RawSent == SelectSeq(requests, LAMBDA r : r.url = "RAW_BASE_URL")
FetchFailed == pc = "exit_err" /\ normalized # <<>>
Fetched == pc \in {"write_templates", "append", "exit_ok"} /\ ~cli.list

\* C8: requests go out one per name that is no built-in flag, in the order
\* of the names; the first failed request ends the fetch with no request
\* for a later name; a fetch that succeeds holds one template per name,
\* in order, the flags with their canned content.
C8_FetchInOrderFailFast ==
    /\ (pc = "fetch_templates") =>
          /\ RawSent = ExpectedRaw(SubSeq(normalized, 1, idx - 1))
          /\ Len(templates) = idx - 1
    /\ FetchFailed =>
          /\ ~IsFlag(normalized[idx])
          /\ RawSent = ExpectedRaw(SubSeq(normalized, 1, idx))
    /\ Fetched =>
          /\ RawSent = ExpectedRaw(normalized)
          /\ Len(templates) = Len(normalized)
          /\ \A i \in 1..Len(templates) :
                /\ templates[i].name = normalized[i]
                /\ (normalized[i] = FLAG_MACOS) => templates[i].content = MACOS_SNIPPET
                /\ (normalized[i] = FLAG_LOCKS) => templates[i].content = LOCKS_SNIPPET

\* The first of two requests failed and the second was never sent.
C8_Witness ==
    /\ FetchFailed /\ error.msg = "Template not found"
    /\ normalized = <<FLAG_MACOS, <<"R">>, <<"G">>>>
    /\ idx = 2
    /\ RawSent = <<RawRequest(<<"R">>)>>
    /\ templates = <<Template(FLAG_MACOS, MACOS_SNIPPET)>>

C8_SuccessWitness ==
    /\ Fetched
    /\ normalized = <<<<"R">>, FLAG_MACOS, <<"G">>>>
    /\ RawSent = <<RawRequest(<<"R">>), RawRequest(<<"G">>)>>

\* C10: the destination changes only in a run without --list and
\* --dry-run whose names resolved and whose templates were all fetched,
\* and no request follows the first write; a run that fails, lists or
\* only prints leaves the destination as it was.
C10_DestinationFrame ==
    /\ [](dest # start.dest =>
             /\ ~cli.list /\ ~cli.dry_run
             /\ pc \in {"append", "exit_ok"}
             /\ error = NoError
             /\ Len(templates) = Len(normalized)
             /\ RawSent = ExpectedRaw(normalized))
    /\ []((pc = "exit_err" \/ cli.list \/ cli.dry_run) => dest = start.dest)
    /\ [][dest' # dest => (pc \in {"write_templates", "append"} /\ requests' = requests)]_vars
    /\ [][dest # start.dest => requests' = requests]_vars

\* A run that fetched over the network wrote the destination.
C10_Witness ==
    /\ pc = "exit_ok" /\ dest # start.dest
    /\ requests = <<TypesRequest, RawRequest(<<"B">>)>>
    /\ ~cli.overwrite /\ start.dest # NoFile

\* A failed fetch after a successful one left a missing destination missing.
C10_FailWitness ==
    /\ pc = "exit_err" /\ Len(RawSent) = 2 /\ start.dest = NoFile /\ dest = NoFile

=============================================================================
